---- MODULE Spec2Model ----
(***************************************************************************)
(* A model of elevator (vimeo/elevator): the level table and the level     *)
(* selection of src/src/level.rs, and the level resolution and the         *)
(* in-place patch pass of process_input in src/src/main.rs.                *)
(*                                                                         *)
(* The crate av1parser is an external collaborator: what it parsed (the    *)
(* sequence header's seq_level_idx and reduced_still_picture_header, the   *)
(* position and size of the sequence header OBU) is an input of the model, *)
(* drawn independently of the bytes of the file.  The program itself keeps *)
(* them apart: seq.sh is the last sequence header that parsed, seq_pos and *)
(* seq_sz are those of the last sequence header OBU seen.                  *)
(*                                                                         *)
(* sh.timing_info_present_flag is false throughout: with it set and no     *)
(* reduced still-picture header the run stops at unimplemented!() before   *)
(* the patch pass.  The writer is a BufWriter: out holds the file with     *)
(* what write_all was given, which reaches the file on flush or drop.      *)
(***************************************************************************)
EXTENDS Integers, Sequences, FiniteSets, TLC

VARIABLES
    file,             \* the bytes the reader sees (the input file)
    out,              \* the bytes of the file the writer was opened on
    seq_pos,          \* file offset of the sequence header OBU's payload
    seq_sz,           \* obu_size of the sequence header OBU
    reduced,          \* sh.reduced_still_picture_header
    old_level,        \* sh.op[0].seq_level_idx, as parsed
    level,            \* the output level's index (Level.0)
    rpos,             \* the reader's position
    wpos,             \* the writer's position
    byte_buf,         \* the two level bytes
    next_input_byte,  \* read-ahead byte of the tier removal
    carry_bit,        \* carried bit of the tier insertion
    pos_in_seq,       \* the writer's position within the sequence header
    pc,               \* where process_input stands
    fatal,            \* the panic message, "" while none
    wrote,            \* file offsets passed to write_all so far (history)
    reads,            \* file offsets read by the patch pass so far (history)
    run,              \* 1: first invocation, 2: invocation on the patched file
    orig,             \* the file before the first invocation (history)
    seq_ctx,          \* the SequenceContext built from the parsed data
    min_cr_level_idx, \* level index required by the compressed ratio bound
    forced_level,     \* config.forced_level: None or Some(level)
    selected          \* what calculate_level returned: None until it is called


patch_vars == <<file, out, seq_pos, seq_sz, reduced, old_level, rpos, wpos,
                byte_buf, next_input_byte, carry_bit, pos_in_seq, fatal,
                wrote, reads, run, orig>>

select_vars == <<seq_ctx, min_cr_level_idx, forced_level, selected>>

\* the statistics pass of process_input (main.rs:187-491) and the output setup
VARIABLES
    time_scale,       \* metadata.time_scale(): framerate / timescale, as <<n, d>>
    picture_size,     \* width * height of the container's resolution
    sh,               \* seq.sh: None or Some(the sequence header that parsed)
    pts,              \* timestamp of the container frame being read
    show_count,       \* shown frames of the current temporal unit
    frame_count,      \* decoded frames of the current temporal unit
    header_count,     \* frame headers of the current temporal unit
    last_tu_time,     \* timestamp of the previous temporal unit
    cur_tu_time,      \* timestamp of the current temporal unit
    frame_size,       \* size of the frame being read, less 128 (i64)
    tu_size,          \* bytes of the current temporal unit
    tu_sizes,         \* window: bytes per temporal unit
    tu_times,         \* window: duration per temporal unit
    header_counts,    \* window: frame headers per temporal unit
    seen_frame_header,    \* a frame header parsed in the current temporal unit
    min_compressed_ratio, \* lowest compressed ratio of the current unit (f64)
    max_display_rate, \* f64, frames per second
    max_decode_rate,  \* f64, frames per second
    max_header_rate,  \* f64, headers per second
    max_mbps,         \* f64, held in bits per second: 10^6 times the code's value
    max_tiles,        \* highest tile count of a frame
    max_tile_cols,    \* highest tile column count of a frame
    display_rate,     \* the display_rate last computed: None or Some(f64)
    min_pic_compressed_ratio, \* what calculate_min_pic_compress_ratio returned
    closed,           \* what the last close of a unit computed (history)
    obus,             \* OBUs and container frames read so far
    output,           \* config.output
    copied,           \* std::fs::copy(input, output) was called
    printed,          \* what Display wrote of a level: None until it is called
    delimiters,       \* temporal delimiter OBUs read so far (history)
    seq_seen          \* offsets of the sequence header OBUs read (history)

acc_vars == <<time_scale, picture_size, sh, pts, show_count, frame_count,
              header_count, last_tu_time, cur_tu_time, frame_size, tu_size,
              tu_sizes, tu_times, header_counts, seen_frame_header,
              min_compressed_ratio, max_display_rate, max_decode_rate,
              max_header_rate, max_mbps, max_tiles, max_tile_cols,
              display_rate, min_pic_compressed_ratio, closed, obus, output,
              copied, printed, delimiters, seq_seen>>

vars == <<file, out, seq_pos, seq_sz, reduced, old_level, level, rpos, wpos,
          byte_buf, next_input_byte, carry_bit, pos_in_seq, pc, fatal, wrote,
          reads, run, orig, seq_ctx, min_cr_level_idx, forced_level, selected,
          acc_vars>>

(***************************************************************************)
(* Bounds of the model.                                                    *)
(***************************************************************************)
\* bytes of the sequence header that follow the two level bytes: 0..MaxTail
MaxTail == 2
\* bytes of the file that follow the sequence header: 0..MaxAfter
MaxAfter == 1

(***************************************************************************)
(* level.rs: the values of the limits.  A u32 or u64 value v is held as    *)
(* <<a, b, c>> with v = a * 10^18 + b * 10^9 + c and b, c < 10^9; an f64   *)
(* value is held in thousandths, std::f64::MAX apart.                      *)
(***************************************************************************)
\* Option<T>
None == <<>>
Some(x) == <<x>>

\* a >= b on u32 / u64 values
GeBig(a, b) ==
    \/ a[1] > b[1]
    \/ a[1] = b[1] /\ a[2] > b[2]
    \/ a[1] = b[1] /\ a[2] = b[2] /\ a[3] >= b[3]

\* u32::from(w) * u32::from(h) for u16 values w, h (no overflow: < 2^32)
MulU16(w, h) ==
    LET p1 == w * (h \div 1000)
        p0 == w * (h % 1000)
        lo == (p1 % 1000000) * 1000 + p0
    IN <<0, p1 \div 1000000 + lo \div 1000000000, lo % 1000000000>>

\* a finite f64 value of m thousandths
F64(m) == [max |-> FALSE, milli |-> m]

\* std::f64::MAX
F64_MAX == [max |-> TRUE, milli |-> 0]

\* a >= b on f64 values
GeF64(a, b) == a.max \/ (~b.max /\ a.milli >= b.milli)

\* Level(index, limits)
Level(i, l) == [idx |-> i, limits |-> l]

\* Level::is_valid
is_valid(l) == l.limits # None

\* LEVELS[0], level.rs lines 96-112
Limits0 ==
    [max_pic_size |-> <<0, 0, 147456>>, max_h_size |-> 2048, max_v_size |-> 1152,
     max_display_rate |-> <<0, 0, 4423680>>,
     max_decode_rate |-> <<0, 0, 5529600>>,
     max_header_rate |-> 150, main_mbps |-> F64(1500), high_mbps |-> F64(0),
     main_cr |-> 2, high_cr |-> 0, max_tiles |-> 8, max_tile_cols |-> 4]

\* LEVELS[1], level.rs lines 113-129
Limits1 ==
    [max_pic_size |-> <<0, 0, 278784>>, max_h_size |-> 2816, max_v_size |-> 1584,
     max_display_rate |-> <<0, 0, 8363520>>,
     max_decode_rate |-> <<0, 0, 10454400>>,
     max_header_rate |-> 150, main_mbps |-> F64(3000), high_mbps |-> F64(0),
     main_cr |-> 2, high_cr |-> 0, max_tiles |-> 8, max_tile_cols |-> 4]

\* LEVELS[4], level.rs lines 132-148
Limits4 ==
    [max_pic_size |-> <<0, 0, 665856>>, max_h_size |-> 4352, max_v_size |-> 2448,
     max_display_rate |-> <<0, 0, 19975680>>,
     max_decode_rate |-> <<0, 0, 24969600>>,
     max_header_rate |-> 150, main_mbps |-> F64(6000), high_mbps |-> F64(0),
     main_cr |-> 2, high_cr |-> 0, max_tiles |-> 16, max_tile_cols |-> 6]

\* LEVELS[5], level.rs lines 149-165
Limits5 ==
    [max_pic_size |-> <<0, 0, 1065024>>, max_h_size |-> 5504, max_v_size |-> 3096,
     max_display_rate |-> <<0, 0, 31950720>>,
     max_decode_rate |-> <<0, 0, 39938400>>,
     max_header_rate |-> 150, main_mbps |-> F64(10000), high_mbps |-> F64(0),
     main_cr |-> 2, high_cr |-> 0, max_tiles |-> 8, max_tile_cols |-> 4]

\* LEVELS[8], level.rs lines 168-184
Limits8 ==
    [max_pic_size |-> <<0, 0, 2359296>>, max_h_size |-> 6144, max_v_size |-> 3456,
     max_display_rate |-> <<0, 0, 70778880>>,
     max_decode_rate |-> <<0, 0, 77856768>>,
     max_header_rate |-> 300, main_mbps |-> F64(12000), high_mbps |-> F64(30000),
     main_cr |-> 4, high_cr |-> 4, max_tiles |-> 32, max_tile_cols |-> 8]

\* LEVELS[9], level.rs lines 185-201
Limits9 ==
    [max_pic_size |-> <<0, 0, 2359296>>, max_h_size |-> 6144, max_v_size |-> 3456,
     max_display_rate |-> <<0, 0, 141557760>>,
     max_decode_rate |-> <<0, 0, 155713536>>,
     max_header_rate |-> 300, main_mbps |-> F64(20000), high_mbps |-> F64(50000),
     main_cr |-> 4, high_cr |-> 4, max_tiles |-> 32, max_tile_cols |-> 8]

\* LEVELS[12], level.rs lines 204-220
Limits12 ==
    [max_pic_size |-> <<0, 0, 8912896>>, max_h_size |-> 8192, max_v_size |-> 4352,
     max_display_rate |-> <<0, 0, 267386880>>,
     max_decode_rate |-> <<0, 0, 273715200>>,
     max_header_rate |-> 300, main_mbps |-> F64(30000), high_mbps |-> F64(100000),
     main_cr |-> 6, high_cr |-> 4, max_tiles |-> 64, max_tile_cols |-> 8]

\* LEVELS[13], level.rs lines 221-237
Limits13 ==
    [max_pic_size |-> <<0, 0, 8912896>>, max_h_size |-> 8192, max_v_size |-> 4352,
     max_display_rate |-> <<0, 0, 534773760>>,
     max_decode_rate |-> <<0, 0, 547430400>>,
     max_header_rate |-> 300, main_mbps |-> F64(40000), high_mbps |-> F64(160000),
     main_cr |-> 8, high_cr |-> 4, max_tiles |-> 64, max_tile_cols |-> 8]

\* LEVELS[14], level.rs lines 238-254
Limits14 ==
    [max_pic_size |-> <<0, 0, 8912896>>, max_h_size |-> 8192, max_v_size |-> 4352,
     max_display_rate |-> <<0, 1, 69547520>>,
     max_decode_rate |-> <<0, 1, 94860800>>,
     max_header_rate |-> 300, main_mbps |-> F64(60000), high_mbps |-> F64(240000),
     main_cr |-> 8, high_cr |-> 4, max_tiles |-> 64, max_tile_cols |-> 8]

\* LEVELS[15], level.rs lines 255-271
Limits15 ==
    [max_pic_size |-> <<0, 0, 8912896>>, max_h_size |-> 8192, max_v_size |-> 4352,
     max_display_rate |-> <<0, 1, 69547520>>,
     max_decode_rate |-> <<0, 1, 176502272>>,
     max_header_rate |-> 300, main_mbps |-> F64(60000), high_mbps |-> F64(240000),
     main_cr |-> 8, high_cr |-> 4, max_tiles |-> 64, max_tile_cols |-> 8]

\* LEVELS[16], level.rs lines 272-288
Limits16 ==
    [max_pic_size |-> <<0, 0, 35651584>>, max_h_size |-> 16384, max_v_size |-> 8704,
     max_display_rate |-> <<0, 1, 69547520>>,
     max_decode_rate |-> <<0, 1, 176502272>>,
     max_header_rate |-> 300, main_mbps |-> F64(60000), high_mbps |-> F64(240000),
     main_cr |-> 8, high_cr |-> 4, max_tiles |-> 128, max_tile_cols |-> 16]

\* LEVELS[17], level.rs lines 289-305
Limits17 ==
    [max_pic_size |-> <<0, 0, 35651584>>, max_h_size |-> 16384, max_v_size |-> 8704,
     max_display_rate |-> <<0, 2, 139095040>>,
     max_decode_rate |-> <<0, 2, 189721600>>,
     max_header_rate |-> 300, main_mbps |-> F64(100000), high_mbps |-> F64(480000),
     main_cr |-> 8, high_cr |-> 4, max_tiles |-> 128, max_tile_cols |-> 16]

\* LEVELS[18], level.rs lines 306-322
Limits18 ==
    [max_pic_size |-> <<0, 0, 35651584>>, max_h_size |-> 16384, max_v_size |-> 8704,
     max_display_rate |-> <<0, 4, 278190080>>,
     max_decode_rate |-> <<0, 4, 379443200>>,
     max_header_rate |-> 300, main_mbps |-> F64(160000), high_mbps |-> F64(800000),
     main_cr |-> 8, high_cr |-> 4, max_tiles |-> 128, max_tile_cols |-> 16]

\* LEVELS[19], level.rs lines 323-339
Limits19 ==
    [max_pic_size |-> <<0, 0, 35651584>>, max_h_size |-> 16384, max_v_size |-> 8704,
     max_display_rate |-> <<0, 4, 278190080>>,
     max_decode_rate |-> <<0, 4, 706009088>>,
     max_header_rate |-> 300, main_mbps |-> F64(160000), high_mbps |-> F64(800000),
     main_cr |-> 8, high_cr |-> 4, max_tiles |-> 128, max_tile_cols |-> 16]

\* LEVELS[31], level.rs lines 351-367
\* LEVELS[31] with the header rate limit of level 6.3
Limits31_HeaderRate ==
    [max_pic_size |-> <<0, 4, 294967295>>, max_h_size |-> 65535,
     max_v_size |-> 65535,
     max_display_rate |-> <<18, 446744073, 709551615>>,
     max_decode_rate |-> <<18, 446744073, 709551615>>,
     max_header_rate |-> 300, main_mbps |-> F64_MAX, high_mbps |-> F64_MAX,
     main_cr |-> 255, high_cr |-> 255, max_tiles |-> 255,
     max_tile_cols |-> 255]

Limits31 ==
    [max_pic_size |-> <<0, 4, 294967295>>, max_h_size |-> 65535, max_v_size |-> 65535,
     max_display_rate |-> <<18, 446744073, 709551615>>,
     max_decode_rate |-> <<18, 446744073, 709551615>>,
     max_header_rate |-> 65535, main_mbps |-> F64_MAX, high_mbps |-> F64_MAX,
     main_cr |-> 255, high_cr |-> 255, max_tiles |-> 255, max_tile_cols |-> 255]

\* pub const LEVELS: [Level; 32]
LEVELS ==
    [i \in 0..31 |->
        CASE i = 0 -> Level(0, Some(Limits0))
          [] i = 1 -> Level(1, Some(Limits1))
          [] i = 2 -> Level(2, None)
          [] i = 3 -> Level(3, None)
          [] i = 4 -> Level(4, Some(Limits4))
          [] i = 5 -> Level(5, Some(Limits5))
          [] i = 6 -> Level(6, None)
          [] i = 7 -> Level(7, None)
          [] i = 8 -> Level(8, Some(Limits8))
          [] i = 9 -> Level(9, Some(Limits9))
          [] i = 10 -> Level(10, None)
          [] i = 11 -> Level(11, None)
          [] i = 12 -> Level(12, Some(Limits12))
          [] i = 13 -> Level(13, Some(Limits13))
          [] i = 14 -> Level(14, Some(Limits14))
          [] i = 15 -> Level(15, Some(Limits15))
          [] i = 16 -> Level(16, Some(Limits16))
          [] i = 17 -> Level(17, Some(Limits17))
          [] i = 18 -> Level(18, Some(Limits18))
          [] i = 19 -> Level(19, Some(Limits19))
          [] i = 20 -> Level(20, None)
          [] i = 21 -> Level(21, None)
          [] i = 22 -> Level(22, None)
          [] i = 23 -> Level(23, None)
          [] i = 24 -> Level(24, None)
          [] i = 25 -> Level(25, None)
          [] i = 26 -> Level(26, None)
          [] i = 27 -> Level(27, None)
          [] i = 28 -> Level(28, None)
          [] i = 29 -> Level(29, None)
          [] i = 30 -> Level(30, None)
          [] i = 31 -> Level(31, Some(Limits31))]

(***************************************************************************)
(* level.rs: calculate_level.                                              *)
(***************************************************************************)
\* the mbps bound of a level for a context (only Main tier exists for low levels)
\* mbps_valid with the comparison the wrong way round
mbps_valid_Reversed(context, lv, limits) ==
    IF context.tier = "Main" \/ lv.idx <= 7
    THEN GeF64(context.mbps, limits.main_mbps)
    ELSE GeF64(context.mbps, limits.high_mbps)

mbps_valid(context, lv, limits) ==
    IF context.tier = "Main" \/ lv.idx <= 7
    THEN GeF64(limits.main_mbps, context.mbps)
    ELSE GeF64(limits.high_mbps, context.mbps)

\* LevelSuits without the comparison of the tile columns
LevelSuits_NoTileCols(context, lv, limits) ==
    /\ GeBig(limits.max_pic_size, MulU16(context.pic_size[1], context.pic_size[2]))
    /\ limits.max_h_size >= context.pic_size[1]
    /\ limits.max_v_size >= context.pic_size[2]
    /\ GeBig(limits.max_display_rate, context.display_rate)
    /\ GeBig(limits.max_decode_rate, context.decode_rate)
    /\ limits.max_header_rate >= context.header_rate
    /\ mbps_valid(context, lv, limits)
    /\ limits.max_tiles >= context.tiles

\* the condition under which calculate_level returns the level lv
LevelSuits(context, lv, limits) ==
    /\ GeBig(limits.max_pic_size, MulU16(context.pic_size[1], context.pic_size[2]))
    /\ limits.max_h_size >= context.pic_size[1]
    /\ limits.max_v_size >= context.pic_size[2]
    /\ GeBig(limits.max_display_rate, context.display_rate)
    /\ GeBig(limits.max_decode_rate, context.decode_rate)
    /\ limits.max_header_rate >= context.header_rate
    /\ mbps_valid(context, lv, limits)
    /\ limits.max_tiles >= context.tiles
    /\ limits.max_tile_cols >= context.tile_cols

\* the loop over LEVELS.iter() from index i on; None: unreachable!() is reached
RECURSIVE ScanLevels(_, _)
ScanLevels(context, i) ==
    IF i > 31 THEN None
    ELSE IF is_valid(LEVELS[i]) /\ LevelSuits(context, LEVELS[i], LEVELS[i].limits[1])
    THEN Some(LEVELS[i])
    ELSE ScanLevels(context, i + 1)

calculate_level(context) == ScanLevels(context, 0)

(***************************************************************************)
(* f64 values of the statistics pass.  They are non-negative, and are held *)
(* exactly, as reduced fractions <<n, d>> with d > 0; a zero denominator   *)
(* marks the values outside the rationals: <<1, 0>> is +infinity, <<0, 0>> *)
(* is NaN and <<-1, 0>> is f64::MAX.  Rounding of f64 is left out.         *)
(***************************************************************************)
RECURSIVE GCD(_, _)
GCD(a, b) == IF b = 0 THEN a ELSE GCD(b, a % b)

R(n, d) ==
    IF d = 0 THEN (IF n = 0 THEN <<0, 0>> ELSE <<1, 0>>)
    ELSE LET g == GCD(n, d) IN <<n \div g, d \div g>>

RInf == <<1, 0>>

RNaN == <<0, 0>>

RMAX == <<-1, 0>>

\* a / b
RDiv(a, b) == R(a[1] * b[2], a[2] * b[1])

\* a * b
RMul(a, b) == R(a[1] * b[1], a[2] * b[2])

\* a >= b
RGe(a, b) ==
    IF a = RNaN \/ b = RNaN THEN FALSE
    ELSE IF b = RInf THEN a = RInf
    ELSE IF a = RInf \/ a = RMAX THEN TRUE
    ELSE IF b = RMAX THEN FALSE
    ELSE a[1] * b[2] >= b[1] * a[2]

\* f64::max: a NaN operand is ignored
RMax(a, b) ==
    IF a = RNaN THEN b
    ELSE IF b = RNaN THEN a
    ELSE IF RGe(a, b) THEN a ELSE b

\* f64::min: a NaN operand is ignored
RMin(a, b) ==
    IF a = RNaN THEN b
    ELSE IF b = RNaN THEN a
    ELSE IF RGe(a, b) THEN b ELSE a

\* f64::round of a finite value: half away from zero
Round(a) == (2 * a[1] + a[2]) \div (2 * a[2])

\* f64::ceil of a finite value
Ceil(a) == (a[1] + a[2] - 1) \div a[2]

(***************************************************************************)
(* Naturals of any size, as base-1000 digits, the lowest first and the     *)
(* highest not zero: the products of a rate and a u64 limit need them.     *)
(***************************************************************************)
RECURSIVE Digits(_)
Digits(n) == IF n = 0 THEN <<>> ELSE <<n % 1000>> \o Digits(n \div 1000)

RECURSIVE Trim(_)
Trim(x) ==
    IF x # <<>> /\ x[Len(x)] = 0 THEN Trim(SubSeq(x, 1, Len(x) - 1)) ELSE x

\* the digits of a base-10^9 limb triple
BigDigits(b) ==
    LET Pad3(x) == <<x % 1000, (x \div 1000) % 1000, x \div 1000000>>
    IN  Trim(Pad3(b[3]) \o Pad3(b[2]) \o Digits(b[1]))

RECURSIVE ConvSum(_, _, _, _)
ConvSum(x, y, k, i) ==
    IF i > Len(x) THEN 0
    ELSE (IF k + 1 - i >= 1 /\ k + 1 - i <= Len(y)
          THEN x[i] * y[k + 1 - i] ELSE 0) + ConvSum(x, y, k, i + 1)

RECURSIVE Propagate(_, _)
Propagate(s, c) ==
    IF s = <<>> THEN Digits(c)
    ELSE LET t == Head(s) + c
         IN  <<t % 1000>> \o Propagate(Tail(s), t \div 1000)

\* x * y
DMul(x, y) ==
    IF x = <<>> \/ y = <<>> THEN <<>>
    ELSE Trim(Propagate([k \in 1..(Len(x) + Len(y) - 1) |->
                             ConvSum(x, y, k, 1)], 0))

RECURSIVE DGeFrom(_, _, _)
DGeFrom(x, y, i) ==
    IF i = 0 THEN TRUE
    ELSE IF x[i] # y[i] THEN x[i] > y[i]
    ELSE DGeFrom(x, y, i - 1)

\* x >= y
DGe(x, y) ==
    IF Len(x) # Len(y) THEN Len(x) > Len(y) ELSE DGeFrom(x, y, Len(x))

(***************************************************************************)
(* f64 values with a u64 limit in them: fractions [n, d] of such naturals, *)
(* a zero d marking +infinity (n not zero) and NaN (n zero).               *)
(***************************************************************************)
W(n, d) == [n |-> n, d |-> d]

\* a fraction of the statistics pass as a wide one (f64::MAX has none)
Wide(r) == W(Digits(r[1]), Digits(r[2]))

WNaN(a) == a.n = <<>> /\ a.d = <<>>

WInf(a) == a.n # <<>> /\ a.d = <<>>

\* a >= b
WGe(a, b) ==
    IF WNaN(a) \/ WNaN(b) THEN FALSE
    ELSE IF WInf(b) THEN WInf(a)
    ELSE IF WInf(a) THEN TRUE
    ELSE DGe(DMul(a.n, b.d), DMul(b.n, a.d))

\* f64::max
WMax(a, b) ==
    IF WNaN(a) THEN b
    ELSE IF WNaN(b) THEN a
    ELSE IF WGe(a, b) THEN a ELSE b

\* x >= b for a value x of the statistics pass, f64::MAX included
GeWide(x, b) ==
    IF x = RMAX THEN ~WNaN(b) /\ ~WInf(b) ELSE WGe(Wide(x), b)

\* u64 as f64: u64::MAX rounds to 2^64, the table's other values are exact
U64AsF64(b) ==
    IF b = <<18, 446744073, 709551615>>
    THEN BigDigits(<<18, 446744073, 709551616>>)
    ELSE BigDigits(b)

(***************************************************************************)
(* level.rs: calculate_min_pic_compress_ratio.                             *)
(***************************************************************************)
\* min_comp_basis of level i with the tier test the wrong way round
min_comp_basis_Swapped(tier, i, limits) ==
    IF tier = "Main" \/ i <= 7 THEN limits.high_cr ELSE limits.main_cr

min_comp_basis(tier, i, limits) ==
    IF tier = "Main" \/ i <= 7 THEN limits.main_cr ELSE limits.high_cr

\* 0.8_f64.max(f64::from(min_comp_basis) * speed_adjustment) without the 0.8
RatioOf_NoFloor(tier, rate, i, limits) ==
    LET speed_adjustment ==
            W(Digits(rate[1]),
              DMul(Digits(rate[2]), U64AsF64(limits.max_display_rate)))
    IN  W(DMul(Digits(min_comp_basis(tier, i, limits)), speed_adjustment.n),
          speed_adjustment.d)

\* min_pic_compress_ratio[i] of a valid level
RatioOf(tier, rate, i, limits) ==
    LET speed_adjustment ==
            W(Digits(rate[1]),
              DMul(Digits(rate[2]), U64AsF64(limits.max_display_rate)))
    IN  WMax(W(Digits(4), Digits(5)),
             W(DMul(Digits(min_comp_basis(tier, i, limits)),
                    speed_adjustment.n),
               speed_adjustment.d))

calculate_min_pic_compress_ratio(tier, rate) ==
    [i \in 0..31 |->
        IF is_valid(LEVELS[i])
        THEN RatioOf(tier, rate, i, LEVELS[i].limits[1])
        ELSE W(Digits(0), Digits(1))]

(***************************************************************************)
(* main.rs: the output level.                                              *)
(***************************************************************************)
\* a.max(b) on usize
MaxOf(a, b) == IF a >= b THEN a ELSE b

\* ComputedLevel without the compressed ratio bound
ComputedLevel_NoFloor(sel, min_cr) == LEVELS[sel.idx]

\* the level chosen when none is forced
ComputedLevel(sel, min_cr) == LEVELS[MaxOf(sel.idx, min_cr)]

\* determine the output level
Resolve ==
    /\ pc = "resolve"
    /\ IF forced_level # None
       THEN /\ level' = forced_level[1].idx
            /\ pc' = "resolved"
            /\ UNCHANGED <<selected, fatal>>
       ELSE LET sel == calculate_level(seq_ctx) IN
            /\ selected' = sel
            /\ IF sel = None
               THEN /\ pc' = "abort"
                    /\ fatal' = "no suitable level found"
                    /\ level' = level
               ELSE /\ pc' = "resolved"
                    /\ level' = ComputedLevel(sel[1], min_cr_level_idx).idx
                    /\ fatal' = fatal
    /\ UNCHANGED <<file, out, seq_pos, seq_sz, reduced, old_level, rpos, wpos,
                   byte_buf, next_input_byte, carry_bit, pos_in_seq, wrote,
                   reads, run, orig>>
    /\ UNCHANGED <<seq_ctx, min_cr_level_idx, forced_level>>
    /\ UNCHANGED acc_vars

(***************************************************************************)
(* Rust's integer operators on u8 / u16 / u32 values.                      *)
(***************************************************************************)
RECURSIVE BitAnd(_, _)
BitAnd(a, b) ==
    IF a = 0 \/ b = 0 THEN 0
    ELSE (a % 2) * (b % 2) + 2 * BitAnd(a \div 2, b \div 2)

RECURSIVE BitOr(_, _)
BitOr(a, b) ==
    IF a = 0 THEN b
    ELSE IF b = 0 THEN a
    ELSE (IF a % 2 = 1 \/ b % 2 = 1 THEN 1 ELSE 0) + 2 * BitOr(a \div 2, b \div 2)

\* !x on a u8
Not8(x) == 255 - x

\* x << n on a u8: the bits shifted out are lost
Shl8(x, n) == (x * 2^n) % 256

\* x >> n
Shr(x, n) == x \div 2^n

\* x as u16, x as u8
AsU16(x) == x % 65536
AsU8(x) == x % 256

\* u16::to_be_bytes, u16::from_be_bytes
to_be_bytes(x) == <<x \div 256, x % 256>>
from_be_bytes(b) == b[1] * 256 + b[2]

(***************************************************************************)
(* The locations and masks of the patch pass.                              *)
(***************************************************************************)
lv_bit_offset_in_seq == IF reduced THEN 5 ELSE 24

lv_byte_offset == seq_pos + lv_bit_offset_in_seq \div 8

lv_bit_offset_in_byte == lv_bit_offset_in_seq % 8

level_aligned ==
    to_be_bytes(AsU16(Shr(level * 2^11, lv_bit_offset_in_byte)))

level_bit_mask ==
    to_be_bytes(AsU16(Shr(31 * 2^11, lv_bit_offset_in_byte)))

tier_bit_mask ==
    to_be_bytes(Shr(AsU16(Shr(1 * 2^11, lv_bit_offset_in_byte)), 1))

post_tier_bit_mask ==
    to_be_bytes(AsU16(Shr(Shr(Shr(65535 * 2^3, lv_bit_offset_in_byte), 8), 1)))

\* old_level.0 > 7 && level.0 <= 7
TierRemoved == old_level > 7 /\ level <= 7

\* old_level.0 <= 7 && level.0 > 7
TierAdded == old_level <= 7 /\ level > 7

(***************************************************************************)
(* Files: the byte at file offset p of f is f[p + 1].                      *)
(***************************************************************************)
ByteAt(f, p) == f[p + 1]

\* read_exact of n bytes at the reader's position succeeds
CanRead(n) == rpos + n <= Len(file)

\* write_all of the bytes bs at the writer's position
WriteAt(f, p, bs) ==
    [i \in 1..(IF p + Len(bs) > Len(f) THEN p + Len(bs) ELSE Len(f)) |->
        IF i > p /\ i <= p + Len(bs) THEN bs[i - p]
        ELSE IF i <= Len(f) THEN f[i] ELSE 0]

(***************************************************************************)
(* The patch pass of process_input.                                        *)
(***************************************************************************)
\* the value compared with old_level.0 by the assert_eq
LevelBitsRead(buf) ==
    AsU8(Shr(from_be_bytes(buf), 11) * 2^lv_bit_offset_in_byte)

\* read the two level bytes and check them against the parsed level
CheckLevel ==
    /\ pc = "check"
    /\ IF ~CanRead(2)
       THEN /\ pc' = "abort"
            /\ fatal' = "could not read the level byte(s)"
            /\ UNCHANGED <<byte_buf, rpos, reads>>
       ELSE LET buf == <<ByteAt(file, rpos), ByteAt(file, rpos + 1)>> IN
            /\ rpos' = rpos + 2
            /\ reads' = reads \cup {rpos, rpos + 1}
            /\ byte_buf' = buf
            /\ IF old_level = LevelBitsRead(buf)
               THEN pc' = "adjust" /\ fatal' = fatal
               ELSE /\ pc' = "abort"
                    /\ fatal' = "level at the location seeked to patch does not match the parsed value"
    /\ UNCHANGED <<file, out, seq_pos, seq_sz, reduced, old_level, level, wpos,
                   next_input_byte, carry_bit, pos_in_seq, wrote, run, orig>>
    /\ UNCHANGED select_vars
    /\ UNCHANGED acc_vars

\* byte_buf with the level bits replaced by the target level's
MergedLevel(buf) ==
    <<BitOr(BitAnd(buf[1], Not8(level_bit_mask[1])), level_aligned[1]),
      BitOr(BitAnd(buf[2], Not8(level_bit_mask[2])), level_aligned[2])>>

\* TierBitSet looking at the second byte only
TierBitSet_SecondByte(buf) == BitAnd(buf[2], tier_bit_mask[2]) > 0

\* the tier bit of the merged bytes is set
TierBitSet(buf) ==
    \/ BitAnd(buf[1], tier_bit_mask[1]) > 0
    \/ BitAnd(buf[2], tier_bit_mask[2]) > 0

\* tier_adjusted_bits when the tier bit is removed
TierRemovedBits(buf, next) ==
    <<BitOr(Shl8(buf[1], 1), BitAnd(Shr(buf[2], 7), post_tier_bit_mask[1])),
      BitOr(Shl8(buf[2], 1), BitAnd(Shr(next, 7), post_tier_bit_mask[2]))>>

\* tier_adjusted_bits when the tier bit is added
TierAddedBits(buf) ==
    <<BitAnd(Shr(buf[1], 1), Not8(tier_bit_mask[1])),
      BitOr(BitAnd(Shr(buf[2], 1), Not8(tier_bit_mask[2])), Shl8(buf[1], 7))>>

\* the two bytes written back
OutputBytes(adj) ==
    <<BitOr(level_aligned[1],
            BitAnd(adj[1], BitOr(tier_bit_mask[1], post_tier_bit_mask[1]))),
      BitOr(level_aligned[2],
            BitAnd(adj[2], BitOr(tier_bit_mask[2], post_tier_bit_mask[2])))>>

\* merge the target level into the two bytes and adjust them for the tier bit
AdjustTier ==
    /\ pc = "adjust"
    /\ LET merged == MergedLevel(byte_buf) IN
       IF TierRemoved
       THEN IF TierBitSet(merged)
            THEN /\ pc' = "abort"
                 /\ fatal' = "cannot reduce level below 4.0 when High tier is specified"
                 /\ byte_buf' = merged
                 /\ UNCHANGED <<next_input_byte, carry_bit, rpos, reads>>
            ELSE IF ~CanRead(1)
            THEN /\ pc' = "abort"
                 /\ fatal' = "could not read the post-tier byte"
                 /\ byte_buf' = merged
                 /\ UNCHANGED <<next_input_byte, carry_bit, rpos, reads>>
            ELSE /\ next_input_byte' = ByteAt(file, rpos)
                 /\ rpos' = rpos + 1
                 /\ reads' = reads \cup {rpos}
                 /\ byte_buf' = OutputBytes(TierRemovedBits(merged, ByteAt(file, rpos)))
                 /\ pc' = "write"
                 /\ UNCHANGED <<carry_bit, fatal>>
       ELSE IF TierAdded
       THEN /\ byte_buf' = OutputBytes(TierAddedBits(merged))
            /\ carry_bit' = Shl8(merged[2], 7)
            /\ pc' = "write"
            /\ UNCHANGED <<next_input_byte, rpos, reads, fatal>>
       ELSE /\ byte_buf' = OutputBytes(merged)
            /\ pc' = "write"
            /\ UNCHANGED <<next_input_byte, carry_bit, rpos, reads, fatal>>
    /\ UNCHANGED <<file, out, seq_pos, seq_sz, reduced, old_level, level, wpos,
                   pos_in_seq, wrote, run, orig>>
    /\ UNCHANGED select_vars
    /\ UNCHANGED acc_vars

\* write the two level bytes; the writer then stands at pos_in_seq
WriteLevelBytes ==
    /\ pc = "write"
    /\ out' = WriteAt(out, wpos, byte_buf)
    /\ wrote' = wrote \cup {wpos, wpos + 1}
    /\ wpos' = wpos + 2
    /\ pos_in_seq' = lv_bit_offset_in_seq \div 8 + 2
    /\ pc' = "realign"
    /\ UNCHANGED <<file, seq_pos, seq_sz, reduced, old_level, level, rpos,
                   byte_buf, next_input_byte, carry_bit, fatal, reads, run, orig>>
    /\ UNCHANGED select_vars
    /\ UNCHANGED acc_vars

\* RemovedOutputByte without the bit of the byte read ahead
RemovedOutputByte_NoNextBit(prev, next) == Shl8(prev, 1)

\* next_output_byte when the tier bit was removed
RemovedOutputByte(prev, next) == BitOr(Shl8(prev, 1), Shr(next, 7))

\* AddedOutputByte without the carried bit
AddedOutputByte_NoCarry(next, carry) == Shr(next, 1)

\* next_output_byte when the tier bit was added
AddedOutputByte(next, carry) == BitOr(Shr(next, 1), carry)

\* Realigning with the loop going one byte too far
Realigning_OneMore == pos_in_seq <= seq_sz /\ (TierRemoved \/ TierAdded)

\* the loop goes on (its condition holds and no break is taken)
Realigning == pos_in_seq < seq_sz /\ (TierRemoved \/ TierAdded)

\* one iteration of the realigning loop
RealignStep ==
    /\ pc = "realign"
    /\ Realigning
    /\ IF ~CanRead(1)
       THEN /\ pc' = "abort"
            /\ fatal' = "could not read sequence header OBU byte"
            /\ UNCHANGED <<out, rpos, wpos, next_input_byte, carry_bit,
                           pos_in_seq, wrote, reads>>
       ELSE LET next == ByteAt(file, rpos)
                next_output_byte ==
                    IF TierRemoved
                    THEN RemovedOutputByte(next_input_byte, next)
                    ELSE AddedOutputByte(next, carry_bit)
            IN
            /\ rpos' = rpos + 1
            /\ reads' = reads \cup {rpos}
            /\ next_input_byte' = next
            /\ carry_bit' = IF TierRemoved THEN carry_bit ELSE Shl8(next, 7)
            /\ out' = WriteAt(out, wpos, <<next_output_byte>>)
            /\ wrote' = wrote \cup {wpos}
            /\ wpos' = wpos + 1
            /\ pos_in_seq' = pos_in_seq + 1
            /\ UNCHANGED <<pc, fatal>>
    /\ UNCHANGED <<file, seq_pos, seq_sz, reduced, old_level, level, byte_buf,
                   run, orig>>
    /\ UNCHANGED select_vars
    /\ UNCHANGED acc_vars

\* the loop ends; the writer is flushed
Flush ==
    /\ pc = "realign"
    /\ ~Realigning
    /\ pc' = "done"
    /\ UNCHANGED <<level>>
    /\ UNCHANGED patch_vars
    /\ UNCHANGED select_vars
    /\ UNCHANGED acc_vars

\* the program is run again, on the file it patched, to put the level back:
\* the parser reports the level the first run wrote
Reinvoke ==
    /\ pc = "done"
    /\ run = 1
    /\ run' = 2
    /\ file' = out
    /\ old_level' = level
    /\ level' = old_level
    /\ rpos' = lv_byte_offset
    /\ wpos' = lv_byte_offset
    /\ byte_buf' = <<0, 0>>
    /\ next_input_byte' = 0
    /\ carry_bit' = 0
    /\ pos_in_seq' = 0
    /\ wrote' = {}
    /\ reads' = {}
    /\ pc' = "check"
    /\ UNCHANGED <<out, seq_pos, seq_sz, reduced, fatal, orig>>
    /\ UNCHANGED select_vars
    /\ UNCHANGED acc_vars

(***************************************************************************)
(* Initial states of the patch pass: the reader and the writer stand at    *)
(* the first level byte (output to a file or in place).                    *)
(***************************************************************************)
\* level indexes the runs are tried with
LevelSample == {0, 1, 5, 8, 13, 31}

\* byte values of the file around the level bytes
ByteSample == {0, 255, 197}

\* the bytes of the file before the sequence header
PrefixSample == {<<165>>}

\* the sequence header's bytes before the first level byte
HeadSample(n) == IF n = 0 THEN {<<>>} ELSE {<<0, 0, 0>>, <<32, 2, 1>>}

\* the bits before the level field in the first level byte
PreSample(n) == IF n = 0 THEN {0} ELSE {0, 1, 24}

\* the n bits after the level field in the two level bytes
PostSample(n) == {0, 2^n - 1, 2^(n - 1), (2^n - 1) \div 3}

\* byte strings of length at most n
Strings(n) == UNION {[1..k -> ByteSample] : k \in 0..n}

\* the statistics as process_input declares them
InitStatistics ==
    /\ pts = 0
    /\ show_count = 0
    /\ frame_count = 0
    /\ header_count = 0
    /\ last_tu_time = 0
    /\ cur_tu_time = 0
    /\ frame_size = 0
    /\ tu_size = 0
    /\ tu_sizes = <<>>
    /\ tu_times = <<>>
    /\ header_counts = <<>>
    /\ seen_frame_header = FALSE
    /\ min_compressed_ratio = RMAX
    /\ max_display_rate = <<0, 1>>
    /\ max_decode_rate = <<0, 1>>
    /\ max_header_rate = <<0, 1>>
    /\ max_mbps = <<0, 1>>
    /\ max_tiles = 0
    /\ max_tile_cols = 0
    /\ display_rate = None
    /\ min_pic_compressed_ratio = None
    /\ closed = None
    /\ obus = 0
    /\ copied = FALSE
    /\ printed = None
    /\ delimiters = 0
    /\ seq_seen = {}

InitAccumIdle ==
    /\ time_scale = <<30, 1>>
    /\ picture_size = 16
    /\ sh = None
    /\ output = "CommandLine"
    /\ InitStatistics

InitSelectIdle ==
    /\ seq_ctx = <<>>
    /\ min_cr_level_idx = 0
    /\ forced_level = None
    /\ selected = None

InitPatch ==
    /\ reduced \in BOOLEAN
    /\ old_level \in LevelSample
    /\ level \in LevelSample
    /\ \E prefix \in PrefixSample, fld \in LevelSample,
          tail \in Strings(MaxTail), after \in Strings(MaxAfter) :
         LET o == (IF reduced THEN 5 ELSE 24) % 8
             n == (IF reduced THEN 5 ELSE 24) \div 8
         IN
         \E head \in HeadSample(n), pre \in PreSample(o),
            post \in PostSample(11 - o) :
              LET word == pre * 2^(16 - o) + fld * 2^(11 - o) + post IN
              /\ file = prefix \o head \o to_be_bytes(word) \o tail \o after
              /\ seq_pos = Len(prefix)
              /\ seq_sz = n + 2 + Len(tail)
    /\ out = file
    /\ orig = file
    /\ rpos = lv_byte_offset
    /\ wpos = lv_byte_offset
    /\ byte_buf = <<0, 0>>
    /\ next_input_byte = 0
    /\ carry_bit = 0
    /\ pos_in_seq = 0
    /\ pc = "check"
    /\ fatal = ""
    /\ wrote = {}
    /\ reads = {}
    /\ run = 1
    /\ InitSelectIdle
    /\ InitAccumIdle

(***************************************************************************)
(* Initial states of the level resolution: the statistics are accumulated, *)
(* the SequenceContext is what the parsed data gave.                       *)
(***************************************************************************)
\* (width, height)
PicSample == {<<512, 288>>, <<2049, 64>>, <<1920, 1080>>, <<4096, 2176>>,
              <<65535, 65535>>}

\* display and decode rates
RateSample == {<<0, 0, 4423680>>, <<0, 0, 77856769>>, <<0, 4, 278190080>>,
               <<18, 446744073, 709551615>>}

HeaderRateSample == {0, 151, 301}

MbpsSample == {F64(0), F64(1501), F64(30000), F64(800001)}

TilesSample == {1, 9, 129}

TileColsSample == {1, 5, 17}

\* the accumulation pass leaves min_cr_level_idx at one of these
MinCrSample == {0, 1, 2}

ForcedSample == {None, Some(LEVELS[0]), Some(LEVELS[13])}

InitPatchIdle ==
    /\ file = <<>>
    /\ out = <<>>
    /\ seq_pos = 0
    /\ seq_sz = 0
    /\ reduced = FALSE
    /\ old_level = 0
    /\ rpos = 0
    /\ wpos = 0
    /\ byte_buf = <<0, 0>>
    /\ next_input_byte = 0
    /\ carry_bit = 0
    /\ pos_in_seq = 0
    /\ fatal = ""
    /\ wrote = {}
    /\ reads = {}
    /\ run = 1
    /\ orig = <<>>

InitSelect ==
    /\ seq_ctx \in [tier : {"Main", "High"}, pic_size : PicSample,
                    display_rate : RateSample, decode_rate : RateSample,
                    header_rate : HeaderRateSample, mbps : MbpsSample,
                    tiles : TilesSample, tile_cols : TileColsSample]
    /\ min_cr_level_idx \in MinCrSample
    /\ forced_level \in ForcedSample
    /\ selected = None
    /\ level = 0
    /\ pc = "resolve"
    /\ InitPatchIdle
    /\ InitAccumIdle

NextSelect == Resolve

SpecSelect == InitSelect /\ [][NextSelect]_vars

Init == InitPatch

Next ==
    \/ CheckLevel
    \/ AdjustTier
    \/ WriteLevelBytes
    \/ RealignStep
    \/ Flush
    \/ Reinvoke

Spec == Init /\ [][Next]_vars

(***************************************************************************)
(* main.rs: the statistics pass.  Each OBU of the stream is one step; what *)
(* av1parser parsed of it (the frame header's flags and tiles, the         *)
(* sequence header's tier, profile and operating points) is an input.      *)
(* Tile lists are left out (max_tile_decode_rate stays 0), and so is       *)
(* total_show_count, which is only printed.  Timestamps do not decrease.   *)
(***************************************************************************)
\* steps of a run: OBUs and container frames
MaxObus == 5

RECURSIVE Sum(_)
Sum(q) == IF q = <<>> THEN 0 ELSE Head(q) + Sum(Tail(q))

\* the three windows with one pop_front at most
Trimmed_Once(w, limit) ==
    IF Sum(w.tu_times) > limit
    THEN [header_counts |-> Tail(w.header_counts),
          tu_sizes |-> Tail(w.tu_sizes),
          tu_times |-> Tail(w.tu_times)]
    ELSE w

\* the three windows after the pop_front loop
RECURSIVE Trimmed(_, _)
Trimmed(w, limit) ==
    IF Sum(w.tu_times) > limit
    THEN Trimmed([header_counts |-> Tail(w.header_counts),
                  tu_sizes |-> Tail(w.tu_sizes),
                  tu_times |-> Tail(w.tu_times)], limit)
    ELSE w

\* the three windows after the push_back calls
Pushed(duration) ==
    [header_counts |-> Append(header_counts, header_count),
     tu_sizes |-> Append(tu_sizes, tu_size),
     tu_times |-> Append(tu_times, duration)]

Tier(h) == IF h.seq_tier = 0 THEN "Main" ELSE "High"

\* the index at which the loop over min_pic_compressed_ratio breaks, 32 if none
RECURSIVE FirstLevel(_, _, _)
FirstLevel(ratio, thresholds, i) ==
    IF i > 31 THEN 32
    ELSE IF GeWide(ratio, thresholds[i]) THEN i
    ELSE FirstLevel(ratio, thresholds, i + 1)

\* min_cr_level_idx after the loop, without the max with its old value
RaisedMinCr_NoMax(idx, ratio, tier, rate) ==
    LET l == FirstLevel(ratio, calculate_min_pic_compress_ratio(tier, rate), 0)
    IN  IF l > 31 THEN idx ELSE l

\* min_cr_level_idx after the loop over min_pic_compressed_ratio
RaisedMinCr(idx, ratio, tier, rate) ==
    LET l == FirstLevel(ratio, calculate_min_pic_compress_ratio(tier, rate), 0)
    IN  IF l > 31 THEN idx ELSE MaxOf(idx, l)

\* the next container frame is read: its timestamp is dp later
ContainerFrame(dp) ==
    /\ pc = "read"
    /\ obus < MaxObus
    /\ obus' = obus + 1
    /\ pts' = pts + dp
    /\ UNCHANGED <<time_scale, picture_size, sh, show_count, frame_count,
                   header_count, last_tu_time, cur_tu_time, frame_size,
                   tu_size, tu_sizes, tu_times, header_counts,
                   seen_frame_header, min_compressed_ratio, max_display_rate,
                   max_decode_rate, max_header_rate, max_mbps, max_tiles,
                   max_tile_cols, display_rate, min_pic_compressed_ratio,
                   closed, output, copied,
                   printed, delimiters, seq_seen>>
    /\ UNCHANGED <<patch_vars, select_vars, level, pc>>

\* no delimiter is taken for a duplicate
DuplicateDelimiter_Never == FALSE

\* duplicate temporal delimiter: its timestamp is the tracked unit start
DuplicateDelimiter == pts = cur_tu_time

\* OBU_TEMPORAL_DELIMITER
TemporalDelimiter ==
    /\ pc = "read"
    /\ obus < MaxObus
    /\ obus' = obus + 1
    /\ delimiters' = delimiters + 1
    /\ IF DuplicateDelimiter
       THEN UNCHANGED <<show_count, frame_count, header_count, tu_size,
                        tu_sizes, tu_times, header_counts, seen_frame_header,
                        min_compressed_ratio, max_display_rate,
                        max_decode_rate, max_header_rate, max_mbps,
                        display_rate, closed, min_cr_level_idx>>
       ELSE LET dt == RDiv(<<pts - cur_tu_time, 1>>, time_scale)
                rate == RDiv(<<show_count, 1>>, dt)
                pushed == Pushed(pts - cur_tu_time)
                full == Sum(pushed.tu_times) >= Round(time_scale)
                w == IF full THEN Trimmed(pushed, Round(time_scale))
                     ELSE pushed
                f == RDiv(time_scale, <<Sum(w.tu_times), 1>>)
                hr == RMul(<<Sum(w.header_counts), 1>>, f)
                bps == RMul(RMul(<<Sum(w.tu_sizes), 1>>, f), <<8, 1>>)
            IN
            /\ max_display_rate' = RMax(max_display_rate, rate)
            /\ max_decode_rate' =
                   RMax(max_decode_rate, RDiv(<<frame_count, 1>>, dt))
            /\ header_counts' = w.header_counts
            /\ tu_sizes' = w.tu_sizes
            /\ tu_times' = w.tu_times
            /\ max_header_rate' =
                   IF full THEN RMax(max_header_rate, hr) ELSE max_header_rate
            /\ max_mbps' = IF full THEN RMax(max_mbps, bps) ELSE max_mbps
            /\ min_cr_level_idx' =
                   IF sh # None
                   THEN RaisedMinCr(min_cr_level_idx, min_compressed_ratio,
                                    Tier(sh[1]), rate)
                   ELSE min_cr_level_idx
            /\ display_rate' = Some(rate)
            /\ closed' = Some([eos |-> FALSE,
                               tier |-> IF sh # None THEN Some(Tier(sh[1]))
                                        ELSE None,
                               prev |-> min_cr_level_idx,
                               ratio |-> min_compressed_ratio,
                               delta_time |-> dt,
                               sum |-> Sum(pushed.tu_times),
                               factor |-> IF full THEN Some(f) ELSE None,
                               header_rate |-> IF full THEN Some(hr) ELSE None,
                               mbps |-> IF full THEN Some(bps) ELSE None])
            /\ show_count' = 0
            /\ frame_count' = 0
            /\ header_count' = 0
            /\ tu_size' = 0
            /\ min_compressed_ratio' = RMAX
            /\ seen_frame_header' = FALSE
    /\ UNCHANGED <<time_scale, picture_size, sh, pts, last_tu_time,
                   cur_tu_time, frame_size, max_tiles, max_tile_cols,
                   min_pic_compressed_ratio, output, copied,
                   printed, seq_seen>>
    /\ UNCHANGED <<patch_vars, seq_ctx, forced_level, selected, level, pc>>

profile_factor(h) ==
    CASE h.seq_profile = 0 -> 15
      [] h.seq_profile = 1 -> 30
      [] OTHER -> 36

\* the size of an uncompressed picture: this assumes a fixed picture size
uncompressed_size(h) == (picture_size * profile_factor(h)) \div 8

\* the parsed header counts as a shown frame
Shown(fh) == fh.show_frame \/ fh.show_existing_frame

\* every parsed header counts as a header and a decoded frame
Decoded_Every(fh) == TRUE

\* the parsed header counts as a header and as a decoded frame
Decoded(fh) == ~fh.show_existing_frame

\* OBU_FRAME_HEADER | OBU_FRAME: o is the OBU, o.fh what parse_frame_header gave
FrameHeader(o) ==
    /\ pc = "read"
    /\ obus < MaxObus
    /\ obus' = obus + 1
    /\ IF sh = None
       THEN /\ pc' = "abort"
            /\ fatal' = "frame header found before sequence header"
            /\ UNCHANGED <<frame_size, tu_size, min_compressed_ratio,
                           last_tu_time, cur_tu_time, seen_frame_header,
                           show_count, header_count, frame_count,
                           max_tile_cols, max_tiles>>
       ELSE /\ UNCHANGED <<pc, fatal>>
            /\ IF o.obu_type = "OBU_FRAME_HEADER"
               THEN /\ min_compressed_ratio' =
                           IF frame_size > 0
                           THEN RMin(min_compressed_ratio,
                                     R(uncompressed_size(sh[1]), frame_size))
                           ELSE min_compressed_ratio
                    /\ frame_size' = o.obu_size - 128
               ELSE /\ frame_size' = frame_size + o.obu_size
                    /\ UNCHANGED min_compressed_ratio
            /\ tu_size' = tu_size + o.obu_size
            /\ IF o.fh # None
               THEN LET fh == o.fh[1] IN
                    /\ IF ~seen_frame_header
                       THEN /\ last_tu_time' = cur_tu_time
                            /\ cur_tu_time' = pts
                       ELSE UNCHANGED <<last_tu_time, cur_tu_time>>
                    /\ seen_frame_header' = TRUE
                    /\ show_count' =
                           IF Shown(fh) THEN show_count + 1 ELSE show_count
                    /\ header_count' =
                           IF Decoded(fh)
                           THEN header_count + 1 ELSE header_count
                    /\ frame_count' =
                           IF Decoded(fh)
                           THEN frame_count + 1 ELSE frame_count
                    /\ max_tile_cols' = MaxOf(max_tile_cols, fh.tile_cols)
                    /\ max_tiles' =
                           MaxOf(max_tiles, fh.tile_cols * fh.tile_rows)
               ELSE UNCHANGED <<last_tu_time, cur_tu_time, seen_frame_header,
                                show_count, header_count, frame_count,
                                max_tile_cols, max_tiles>>
    /\ UNCHANGED <<time_scale, picture_size, sh, pts, tu_sizes, tu_times,
                   header_counts, max_display_rate, max_decode_rate,
                   max_header_rate, max_mbps, display_rate,
                   min_pic_compressed_ratio, closed, output, copied,
                   printed, delimiters, seq_seen>>
    /\ UNCHANGED <<file, out, seq_pos, seq_sz, reduced, old_level, rpos, wpos,
                   byte_buf, next_input_byte, carry_bit, pos_in_seq, wrote,
                   reads, run, orig, select_vars, level>>

\* OBU_METADATA | OBU_TILE_GROUP
Payload(obu_size) ==
    /\ pc = "read"
    /\ obus < MaxObus
    /\ obus' = obus + 1
    /\ frame_size' = frame_size + obu_size
    /\ tu_size' = tu_size + obu_size
    /\ UNCHANGED <<time_scale, picture_size, sh, pts, show_count, frame_count,
                   header_count, last_tu_time, cur_tu_time, tu_sizes,
                   tu_times, header_counts, seen_frame_header,
                   min_compressed_ratio, max_display_rate, max_decode_rate,
                   max_header_rate, max_mbps, max_tiles, max_tile_cols,
                   display_rate, min_pic_compressed_ratio, closed, output,
                   copied, printed, delimiters, seq_seen>>
    /\ UNCHANGED <<patch_vars, select_vars, level, pc>>

\* OBU_SEQUENCE_HEADER: o is the OBU at offset o.pos, o.sh what process_obu
\* parsed of it (None: seq.sh keeps the header parsed before)
SequenceHeader(o) ==
    /\ pc = "read"
    /\ obus < MaxObus
    /\ obus' = obus + 1
    /\ seq_seen' = seq_seen \cup {o.pos}
    /\ seq_pos' = o.pos
    /\ sh' = IF o.sh # None THEN o.sh ELSE sh
    /\ seq_sz' = o.obu_size
    /\ UNCHANGED <<time_scale, picture_size, pts, show_count, frame_count,
                   header_count, last_tu_time, cur_tu_time, frame_size,
                   tu_size, tu_sizes, tu_times, header_counts,
                   seen_frame_header, min_compressed_ratio, max_display_rate,
                   max_decode_rate, max_header_rate, max_mbps, max_tiles,
                   max_tile_cols, display_rate, min_pic_compressed_ratio,
                   closed, output, copied,
                   printed, delimiters>>
    /\ UNCHANGED <<file, out, reduced, old_level, rpos, wpos, byte_buf,
                   next_input_byte, carry_bit, pos_in_seq, fatal, wrote,
                   reads, run, orig, select_vars, level, pc>>

\* as u64 of a ceiled f64: NaN gives 0, the cast saturates
U64Of(x) ==
    IF x = RNaN THEN <<0, 0, 0>>
    ELSE IF x = RInf THEN <<18, 446744073, 709551615>>
    ELSE <<0, Ceil(x) \div 1000000000, Ceil(x) % 1000000000>>

\* as u16 of a ceiled f64
U16Of(x) ==
    IF x = RNaN THEN 0
    ELSE IF x = RInf \/ Ceil(x) > 65535 THEN 65535
    ELSE Ceil(x)

\* max_mbps as the f64 of the SequenceContext: thousandths of a megabit per
\* second, rounded up, which no comparison with a limit of the table can tell
\* from the value itself; max_mbps is finite (0 * inf is NaN, which f64::max
\* ignores)
MbpsOf(x) == F64(Ceil(RDiv(x, <<1000, 1>>)))

\* the SequenceContext generated from the parsed data
SequenceContext(h, display, decode, header, bitrate, tiles, tile_cols) ==
    [tier |-> Tier(h),
     pic_size |-> <<h.max_frame_width % 65536, h.max_frame_height % 65536>>,
     display_rate |-> U64Of(RMul(display, <<picture_size, 1>>)),
     decode_rate |-> U64Of(RMul(decode, <<picture_size, 1>>)),
     header_rate |-> U16Of(header),
     mbps |-> MbpsOf(bitrate),
     tiles |-> tiles % 256,
     tile_cols |-> tile_cols % 256]

\* sh.operating_points_cnt > 1, with the bound one too high
MultipleOperatingPoints_Two(h) == h.operating_points_cnt > 2

MultipleOperatingPoints(h) == h.operating_points_cnt > 1

\* the final updates after the last container frame, up to unimplemented!()
EndOfStream ==
    /\ pc = "read"
    /\ LET dt == RMax(RDiv(<<cur_tu_time - last_tu_time, 1>>, time_scale),
                      RMul(RDiv(<<1, 1>>, time_scale), <<cur_tu_time, 1>>))
           rate == RDiv(<<show_count, 1>>, dt)
           pushed == Pushed(cur_tu_time - last_tu_time)
           sum == Sum(pushed.tu_times)
           f == IF sum >= Round(time_scale)
                THEN RDiv(time_scale, <<sum, 1>>) ELSE <<1, 1>>
           w == Trimmed(pushed, Round(time_scale))
           hr == RMul(<<Sum(w.header_counts), 1>>, f)
           bps == RMul(RMul(<<Sum(w.tu_sizes), 1>>, f), <<8, 1>>)
       IN
       /\ max_display_rate' = RMax(max_display_rate, rate)
       /\ max_decode_rate' =
              RMax(RMax(max_decode_rate, RDiv(<<frame_count, 1>>, dt)),
                   RMul(<<0, 1>>, <<2, 1>>))
       /\ header_counts' = w.header_counts
       /\ tu_sizes' = w.tu_sizes
       /\ tu_times' = w.tu_times
       /\ max_header_rate' = RMax(max_header_rate, hr)
       /\ max_mbps' = RMax(max_mbps, bps)
       /\ display_rate' = Some(rate)
       /\ closed' = Some([eos |-> TRUE,
                          tier |-> IF sh # None THEN Some(Tier(sh[1]))
                                   ELSE None,
                          prev |-> min_cr_level_idx,
                          ratio |-> min_compressed_ratio,
                          delta_time |-> dt,
                          sum |-> sum,
                          factor |-> Some(f),
                          header_rate |-> Some(hr),
                          mbps |-> Some(bps)])
       /\ IF sh = None
          THEN /\ pc' = "abort"
               /\ fatal' = "called Option::unwrap() on a None value"
               /\ UNCHANGED <<min_cr_level_idx, seq_ctx>>
          ELSE /\ min_cr_level_idx' =
                      RaisedMinCr(min_cr_level_idx, min_compressed_ratio,
                                  Tier(sh[1]), rate)
               /\ IF MultipleOperatingPoints(sh[1])
                  THEN /\ pc' = "abort"
                       /\ fatal' = "streams with multiple operating points not yet supported"
                       /\ UNCHANGED seq_ctx
                  ELSE /\ pc' = "resolve"
                       /\ fatal' = fatal
                       /\ seq_ctx' =
                              SequenceContext(sh[1], max_display_rate',
                                  max_decode_rate', max_header_rate',
                                  max_mbps', max_tiles, max_tile_cols)
    /\ UNCHANGED <<time_scale, picture_size, sh, pts, show_count, frame_count,
                   header_count, last_tu_time, cur_tu_time, frame_size,
                   tu_size, seen_frame_header, min_compressed_ratio,
                   max_tiles, max_tile_cols, min_pic_compressed_ratio, obus,
                   output, copied,
                   printed, delimiters, seq_seen>>
    /\ UNCHANGED <<file, out, seq_pos, seq_sz, reduced, old_level, rpos, wpos,
                   byte_buf, next_input_byte, carry_bit, pos_in_seq, wrote,
                   reads, run, orig, forced_level, selected, level>>

\* the output is set up: the input is copied if the output is another file
PrepareOutput ==
    /\ pc = "resolved"
    /\ old_level' = sh[1].seq_level_idx
    /\ IF output = "CommandLine"
       THEN /\ pc' = "reported"
            /\ UNCHANGED copied
       ELSE /\ copied' = (output = "File")
            /\ pc' = "located"
    /\ UNCHANGED <<time_scale, picture_size, sh, pts, show_count, frame_count,
                   header_count, last_tu_time, cur_tu_time, frame_size,
                   tu_size, tu_sizes, tu_times, header_counts,
                   seen_frame_header, min_compressed_ratio, max_display_rate,
                   max_decode_rate, max_header_rate, max_mbps, max_tiles,
                   max_tile_cols, display_rate, min_pic_compressed_ratio,
                   closed, obus, output, printed, delimiters, seq_seen>>
    /\ UNCHANGED <<file, out, seq_pos, seq_sz, reduced, rpos, wpos, byte_buf,
                   next_input_byte, carry_bit, pos_in_seq, fatal, wrote,
                   reads, run, orig, select_vars, level>>

(***************************************************************************)
(* Streams the statistics pass is run on.                                  *)
(***************************************************************************)
\* framerate / timescale of the IVF header
TimeScaleSample == {<<30, 1>>, <<4423680, 1>>}

\* timestamp steps between container frames
DeltaSample == {1, 20, 40}

\* frame header and frame OBUs
FrameSample ==
    {[obu_type |-> "OBU_FRAME_HEADER", obu_size |-> 148,
      fh |-> Some([show_frame |-> TRUE, show_existing_frame |-> FALSE,
                   tile_cols |-> 1, tile_rows |-> 1])],
     [obu_type |-> "OBU_FRAME_HEADER", obu_size |-> 168,
      fh |-> Some([show_frame |-> FALSE, show_existing_frame |-> FALSE,
                   tile_cols |-> 2, tile_rows |-> 2])],
     [obu_type |-> "OBU_FRAME_HEADER", obu_size |-> 130,
      fh |-> Some([show_frame |-> FALSE, show_existing_frame |-> TRUE,
                   tile_cols |-> 1, tile_rows |-> 1])],
     [obu_type |-> "OBU_FRAME_HEADER", obu_size |-> 100, fh |-> None],
     [obu_type |-> "OBU_FRAME", obu_size |-> 168,
      fh |-> Some([show_frame |-> TRUE, show_existing_frame |-> FALSE,
                   tile_cols |-> 1, tile_rows |-> 1])]}

\* metadata and tile group OBUs
PayloadSample == {20}

\* sequence header OBUs
SequenceHeaderSample ==
    {[pos |-> 44, obu_size |-> 10,
      sh |-> Some([seq_tier |-> 0, seq_profile |-> 0, seq_level_idx |-> 0,
                   operating_points_cnt |-> 1,
                   max_frame_width |-> 4, max_frame_height |-> 4])],
     [pos |-> 44, obu_size |-> 12,
      sh |-> Some([seq_tier |-> 1, seq_profile |-> 1, seq_level_idx |-> 8,
                   operating_points_cnt |-> 2,
                   max_frame_width |-> 4, max_frame_height |-> 4])],
     [pos |-> 80, obu_size |-> 10,
      sh |-> Some([seq_tier |-> 0, seq_profile |-> 0, seq_level_idx |-> 0,
                   operating_points_cnt |-> 1,
                   max_frame_width |-> 4, max_frame_height |-> 4])],
     [pos |-> 80, obu_size |-> 10, sh |-> None]}

\* the sequence header OBUs that can be read next: the first of a stream is
\* the one at the lower offset, a later one lies after those read before
NextSequenceHeaders ==
    {o \in SequenceHeaderSample :
        IF seq_seen = {} THEN o.pos = 44 ELSE \A p \in seq_seen : o.pos > p}

OutputSample == {"CommandLine", "InPlace", "File"}

InitAccum ==
    /\ time_scale \in TimeScaleSample
    /\ picture_size = 16
    /\ sh = None
    /\ output \in OutputSample
    /\ InitStatistics
    /\ InitPatchIdle
    /\ InitSelectIdle
    /\ level = 0
    /\ pc = "read"

NextAccum ==
    \/ \E dp \in DeltaSample : ContainerFrame(dp)
    \/ TemporalDelimiter
    \/ \E o \in FrameSample : FrameHeader(o)
    \/ \E obu_size \in PayloadSample : Payload(obu_size)
    \/ \E o \in NextSequenceHeaders : SequenceHeader(o)
    \/ EndOfStream
    \/ Resolve
    \/ PrepareOutput

SpecAccum == InitAccum /\ [][NextAccum]_vars

(***************************************************************************)
(* The functions of level.rs on their own: calculate_level,                *)
(* calculate_min_pic_compress_ratio and Level's Display are applied, one   *)
(* after the other, to a context, a display rate and a level.              *)
(***************************************************************************)
\* what fmt writes: the text, or the numbers put into "{}.{} ({})"
fmt(l) ==
    LET index == l.idx IN
    IF index = 31
    THEN [text |-> "Maximum parameters", x |-> 0, y |-> 0, index |-> 0]
    ELSE IF index >= 24
    THEN [text |-> "Reserved", x |-> 0, y |-> 0, index |-> 0]
    ELSE [text |-> "{}.{} ({})", x |-> 2 + Shr(index, 2),
          y |-> BitAnd(index, 3), index |-> l.idx]

ApplyCalculateLevel ==
    /\ pc = "apply"
    /\ selected' = calculate_level(seq_ctx)
    /\ pc' = "level"
    /\ UNCHANGED <<patch_vars, acc_vars, seq_ctx, min_cr_level_idx,
                   forced_level, level>>

ApplyMinPicCompressRatio ==
    /\ pc = "level"
    /\ min_pic_compressed_ratio' =
           Some(calculate_min_pic_compress_ratio(seq_ctx.tier, display_rate[1]))
    /\ pc' = "ratio"
    /\ UNCHANGED <<time_scale, picture_size, sh, pts, show_count, frame_count,
                   header_count, last_tu_time, cur_tu_time, frame_size,
                   tu_size, tu_sizes, tu_times, header_counts,
                   seen_frame_header, min_compressed_ratio, max_display_rate,
                   max_decode_rate, max_header_rate, max_mbps, max_tiles,
                   max_tile_cols, display_rate, closed, obus, output, copied,
                   printed, delimiters, seq_seen>>
    /\ UNCHANGED <<patch_vars, select_vars, level>>

ApplyFmt ==
    /\ pc = "ratio"
    /\ printed' = Some(fmt(LEVELS[level]))
    /\ pc' = "shown"
    /\ UNCHANGED <<time_scale, picture_size, sh, pts, show_count, frame_count,
                   header_count, last_tu_time, cur_tu_time, frame_size,
                   tu_size, tu_sizes, tu_times, header_counts,
                   seen_frame_header, min_compressed_ratio, max_display_rate,
                   max_decode_rate, max_header_rate, max_mbps, max_tiles,
                   max_tile_cols, display_rate, min_pic_compressed_ratio,
                   closed, obus, output, copied,
                   delimiters, seq_seen>>
    /\ UNCHANGED <<patch_vars, select_vars, level>>

\* display rates, in frames per second
FpsSample == {<<0, 1>>, <<30, 1>>, <<30000, 1001>>, <<1769472, 1>>,
              <<4423680, 1>>, <<442368000, 1>>, RInf, RNaN}

InitPure ==
    /\ seq_ctx \in [tier : {"Main", "High"},
                    pic_size : {<<512, 288>>, <<4096, 2176>>},
                    display_rate : {<<0, 0, 4423680>>},
                    decode_rate : {<<0, 0, 4423680>>},
                    header_rate : {0}, mbps : MbpsSample,
                    tiles : {1}, tile_cols : {1}]
    /\ min_cr_level_idx = 0
    /\ forced_level = None
    /\ selected = None
    /\ level \in 0..31
    /\ pc = "apply"
    /\ InitPatchIdle
    /\ time_scale = <<30, 1>>
    /\ picture_size = 16
    /\ sh = None
    /\ output = "CommandLine"
    /\ pts = 0
    /\ show_count = 0
    /\ frame_count = 0
    /\ header_count = 0
    /\ last_tu_time = 0
    /\ cur_tu_time = 0
    /\ frame_size = 0
    /\ tu_size = 0
    /\ tu_sizes = <<>>
    /\ tu_times = <<>>
    /\ header_counts = <<>>
    /\ seen_frame_header = FALSE
    /\ min_compressed_ratio = RMAX
    /\ max_display_rate = <<0, 1>>
    /\ max_decode_rate = <<0, 1>>
    /\ max_header_rate = <<0, 1>>
    /\ max_mbps = <<0, 1>>
    /\ max_tiles = 0
    /\ max_tile_cols = 0
    /\ display_rate \in {Some(r) : r \in FpsSample}
    /\ min_pic_compressed_ratio = None
    /\ closed = None
    /\ obus = 0
    /\ copied = FALSE
    /\ printed = None
    /\ delimiters = 0
    /\ seq_seen = {}

NextPure ==
    \/ ApplyCalculateLevel
    \/ ApplyMinPicCompressRatio
    \/ ApplyFmt

SpecPure == InitPure /\ [][NextPure]_vars

(***************************************************************************)
(* What the properties below speak of.                                     *)
(***************************************************************************)
\* bit j of the sequence header held by the file f (bit 0: the first byte's MSB)
RecBit(f, j) == (ByteAt(f, seq_pos + (j \div 8)) \div 2^(7 - (j % 8))) % 2

\* the five bits at the level field's bit offset
LevelFieldOf(f) ==
    LET o == lv_bit_offset_in_seq IN
    16 * RecBit(f, o) + 8 * RecBit(f, o + 1) + 4 * RecBit(f, o + 2)
        + 2 * RecBit(f, o + 3) + RecBit(f, o + 4)

\* the bytes of the sequence header
Record(f) == SubSeq(f, seq_pos + 1, seq_pos + seq_sz)

\* the number of bits of the sequence header
RecordBits == 8 * seq_sz

\* the bit positions of the two level bytes
LevelByteBits == (8 * (lv_bit_offset_in_seq \div 8))..(8 * (lv_bit_offset_in_seq \div 8) + 15)

\* the bit positions of the level field
LevelFieldBits == lv_bit_offset_in_seq..(lv_bit_offset_in_seq + 4)

NoTransition == ~TierRemoved /\ ~TierAdded

MismatchMsg == "level at the location seeked to patch does not match the parsed value"
HighTierMsg == "cannot reduce level below 4.0 when High tier is specified"

\* the consistency check was made and passed / failed
CheckPassed ==
    \/ pc \in {"adjust", "write", "realign", "done"}
    \/ pc = "abort" /\ fatal \in {HighTierMsg, "could not read the post-tier byte",
                                  "could not read sequence header OBU byte"}
CheckFailed == pc = "abort" /\ fatal = MismatchMsg

\* C1: a patch without tier transition writes exactly the two level bytes,
\* puts the new level index in the level field and leaves every other bit of
\* the two bytes as it was, at bit offset 5 and at bit offset 24.
C1_NoTransitionKeepsOtherBits ==
    (pc = "done" /\ NoTransition) =>
        /\ wrote = {lv_byte_offset, lv_byte_offset + 1}
        /\ LevelFieldOf(out) = level
        /\ \A j \in LevelByteBits \ LevelFieldBits : RecBit(out, j) = RecBit(file, j)

\* C2: the consistency check passes exactly when the five bits at the level
\* field's bit offset equal the parsed level index; when it fails, nothing
\* has been written.
C2_CheckIffFieldEqualsParsed ==
    /\ CheckPassed => LevelFieldOf(file) = old_level
    /\ CheckFailed => (LevelFieldOf(file) # old_level /\ wrote = {} /\ out = file)

\* C5: the tier bit is removed only when it is 0; when it is 1 the run ends
\* with the fatal error and nothing has been written.
C5_TierRemovalGuard ==
    (CheckPassed /\ TierRemoved /\ pc # "adjust") =>
        IF RecBit(file, lv_bit_offset_in_seq + 5) = 1
        THEN pc = "abort" /\ fatal = HighTierMsg /\ wrote = {} /\ out = file
        ELSE fatal # HighTierMsg

C5_Witness ==
    /\ pc = "abort" /\ fatal = HighTierMsg /\ run = 1
    /\ RecBit(file, lv_bit_offset_in_seq + 5) = 1

\* C6: after a tier insertion the level field holds the new level, the bit
\* after it is 0, every bit that followed the level field stands one
\* position later, the last bit of the record is dropped (nothing after the
\* record changes) and the length is unchanged.
C6_TierInsertionShiftsRight ==
    (pc = "done" /\ TierAdded) =>
        /\ LevelFieldOf(out) = level
        /\ RecBit(out, lv_bit_offset_in_seq + 5) = 0
        /\ \A j \in (lv_bit_offset_in_seq + 5)..(RecordBits - 2) :
               RecBit(out, j + 1) = RecBit(file, j)
        /\ Len(out) = Len(file)
        /\ \A p \in (seq_pos + seq_sz)..(Len(file) - 1) : ByteAt(out, p) = ByteAt(file, p)

C6_Witness ==
    /\ pc = "done" /\ TierAdded /\ run = 1
    /\ seq_sz >= lv_bit_offset_in_seq \div 8 + 4
    /\ RecBit(file, RecordBits - 1) = 1
    /\ RecBit(file, lv_bit_offset_in_seq + 5) = 1
    /\ Len(file) > seq_pos + seq_sz

\* C7: after a tier removal the level field holds the new level and every
\* bit that followed the tier bit stands one position earlier, up to the
\* end of the record.
C7_TierRemovalShiftsLeft ==
    (pc = "done" /\ TierRemoved) =>
        /\ LevelFieldOf(out) = level
        /\ \A j \in (lv_bit_offset_in_seq + 6)..(RecordBits - 1) :
               RecBit(out, j - 1) = RecBit(file, j)

C7_Witness ==
    /\ pc = "done" /\ TierRemoved /\ run = 1
    /\ seq_sz >= lv_bit_offset_in_seq \div 8 + 4
    /\ RecBit(file, lv_bit_offset_in_seq + 6) = 1
    /\ RecBit(file, RecordBits - 1) = 1

\* C8: patching from A to B and back to A, both on the same side of the
\* tier boundary, gives back the bytes of a record that declared A.
C8_RoundTripNoTransition ==
    (run = 2 /\ pc = "done" /\ NoTransition /\ LevelFieldOf(orig) = level) =>
        Record(out) = Record(orig)

\* C9: inserting the tier bit and removing it again gives back a record
\* that declared A and ended with a 0 bit, whatever follows the record; when
\* the record ended with a 1 bit only that last bit differs.
C9_RoundTripInsertRemove ==
    (run = 2 /\ pc = "done" /\ TierRemoved /\ LevelFieldOf(orig) = level) =>
        IF RecBit(orig, RecordBits - 1) = 0
        THEN Record(out) = Record(orig)
        ELSE /\ \A j \in 0..(RecordBits - 2) : RecBit(out, j) = RecBit(orig, j)
             /\ RecBit(out, RecordBits - 1) = 0

\* C10: the patch pass writes only inside the sequence header: every byte
\* outside it, and the file's length, stay as they were.
C10_WritesInsideRecord ==
    /\ wrote \subseteq seq_pos..(seq_pos + seq_sz - 1)
    /\ Len(out) = Len(file)
    /\ \A p \in 0..(Len(file) - 1) :
           (p < seq_pos \/ p >= seq_pos + seq_sz) => ByteAt(out, p) = ByteAt(file, p)

C10_Witness ==
    /\ pc = "done" /\ TierAdded /\ run = 1
    /\ seq_sz >= lv_bit_offset_in_seq \div 8 + 2
    /\ wrote = lv_byte_offset..(seq_pos + seq_sz - 1)
    /\ seq_sz = lv_bit_offset_in_seq \div 8 + 4
    /\ Len(file) > seq_pos + seq_sz
    /\ Record(out) # Record(file)

(***************************************************************************)
(* Properties of the level selection, under SpecSelect.                    *)
(***************************************************************************)
\* every limit of l is at least the context's value
Dominates(l, i, c) ==
    /\ GeBig(l.max_pic_size, MulU16(c.pic_size[1], c.pic_size[2]))
    /\ l.max_h_size >= c.pic_size[1]
    /\ l.max_v_size >= c.pic_size[2]
    /\ GeBig(l.max_display_rate, c.display_rate)
    /\ GeBig(l.max_decode_rate, c.decode_rate)
    /\ l.max_header_rate >= c.header_rate
    /\ GeF64(IF c.tier = "High" /\ i > 7 THEN l.high_mbps ELSE l.main_mbps, c.mbps)
    /\ l.max_tiles >= c.tiles
    /\ l.max_tile_cols >= c.tile_cols

C4_LevelResolution ==
    pc = "resolved" =>
        IF forced_level # None
        THEN level = forced_level[1].idx /\ LEVELS[level] = forced_level[1]
        ELSE /\ selected # None
             /\ level = IF selected[1].idx >= min_cr_level_idx
                        THEN selected[1].idx ELSE min_cr_level_idx
             /\ level >= selected[1].idx

C4_Witness ==
    /\ pc = "resolved" /\ forced_level = None
    /\ selected # None /\ selected[1].idx = 0
    /\ min_cr_level_idx = 1 /\ level = 1

\* the message of the operating points check
OperatingPointsMsg == "streams with multiple operating points not yet supported"

\* C11: once the stream is read to its end with a sequence header that
\* declares more than one operating point, the run has stopped with the
\* unsupported-feature error, whatever the output mode, and nothing was
\* written: the input was not copied and no patch write was made.
C11_OperatingPointsAbortBeforeOutput ==
    (pc # "read" /\ sh # None /\ sh[1].operating_points_cnt > 1) =>
        /\ pc = "abort"
        /\ fatal = OperatingPointsMsg
        /\ ~copied
        /\ wrote = {}
        /\ out = file

C11_Witness ==
    /\ pc = "abort"
    /\ fatal = OperatingPointsMsg
    /\ output = "File"
    /\ sh[1].operating_points_cnt = 2

\* the indexes of the table without limits
ReservedIndexes == {2, 3, 6, 7, 10, 11} \cup (20..30)

\* C12: entry i of LEVELS carries index i, it has no limits exactly at the
\* indexes 2, 3, 6, 7, 10, 11 and 20..30, and each limit of entry 31 is the
\* highest value of its type; the level a resolution ends with is such an
\* entry.
C12_LevelsTableShape ==
    /\ \A i \in 0..31 :
          /\ LEVELS[i].idx = i
          /\ ~is_valid(LEVELS[i]) <=> i \in ReservedIndexes
    /\ LET m == LEVELS[31].limits[1] IN
          /\ m.max_pic_size = <<0, 4, 294967295>>
          /\ m.max_h_size = 65535
          /\ m.max_v_size = 65535
          /\ m.max_display_rate = <<18, 446744073, 709551615>>
          /\ m.max_decode_rate = <<18, 446744073, 709551615>>
          /\ m.max_header_rate = 65535
          /\ m.main_mbps = F64_MAX
          /\ m.high_mbps = F64_MAX
          /\ m.main_cr = 255
          /\ m.high_cr = 255
          /\ m.max_tiles = 255
          /\ m.max_tile_cols = 255
    /\ selected # None => LEVELS[selected[1].idx] = selected[1]

C12_Witness ==
    /\ pc = "resolved"
    /\ selected # None
    /\ selected[1].idx = 31

\* the contexts that differ from c in one field, which is larger
Larger(c) ==
    {[c EXCEPT !.pic_size = <<p[1], c.pic_size[2]>>] :
        p \in {q \in PicSample : q[1] > c.pic_size[1]}}
    \cup {[c EXCEPT !.pic_size = <<c.pic_size[1], p[2]>>] :
        p \in {q \in PicSample : q[2] > c.pic_size[2]}}
    \cup {[c EXCEPT !.display_rate = r] :
        r \in {q \in RateSample : GeBig(q, c.display_rate)}}
    \cup {[c EXCEPT !.decode_rate = r] :
        r \in {q \in RateSample : GeBig(q, c.decode_rate)}}
    \cup {[c EXCEPT !.header_rate = r] :
        r \in {q \in HeaderRateSample : q > c.header_rate}}
    \cup {[c EXCEPT !.mbps = r] :
        r \in {q \in MbpsSample : GeF64(q, c.mbps)}}
    \cup {[c EXCEPT !.tiles = r] :
        r \in {q \in TilesSample : q > c.tiles}}
    \cup {[c EXCEPT !.tile_cols = r] :
        r \in {q \in TileColsSample : q > c.tile_cols}}

\* level a is not above level b, no level at all counting as the highest
NotAbove(a, b) == b = None \/ (a # None /\ a[1].idx <= b[1].idx)

\* C13: a context that differs from the one calculate_level was called with
\* in a single field, which is larger, and has the same tier never gets a
\* lower level index.
C13_CalculateLevelMonotonic ==
    (pc \in {"resolved", "abort"} /\ forced_level = None
        /\ min_cr_level_idx = 0) =>
        \A c \in Larger(seq_ctx) : NotAbove(selected, calculate_level(c))

C13_Witness ==
    /\ pc = "resolved"
    /\ forced_level = None
    /\ selected # None
    /\ selected[1].idx = 1
    /\ calculate_level([seq_ctx EXCEPT !.tiles = 129])[1].idx > 1

(***************************************************************************)
(* Properties of the functions of level.rs, under SpecPure.                *)
(***************************************************************************)
\* the ratios calculate_min_pic_compress_ratio returned
Ratios == min_pic_compressed_ratio[1]

\* 0.8
Floor == W(Digits(4), Digits(5))

\* C14: for the tier at hand and every valid level, the ratio that
\* calculate_min_pic_compress_ratio computed is at least 0.8, and the one it
\* computes for a display rate that is not lower is not lower.
C14_RatioMonotonicWithFloor ==
    min_pic_compressed_ratio # None =>
        \A i \in 0..31 :
            is_valid(LEVELS[i]) =>
                /\ WGe(Ratios[i], Floor)
                /\ \A r \in FpsSample :
                       WGe(Wide(r), Wide(display_rate[1])) =>
                           WGe(calculate_min_pic_compress_ratio(
                                   seq_ctx.tier, r)[i], Ratios[i])

C14_Witness ==
    /\ min_pic_compressed_ratio # None
    /\ display_rate = Some(<<4423680, 1>>)
    /\ ~WGe(Floor, Ratios[0])
    /\ ~WGe(Ratios[1], Ratios[0])

\* every limit of l but the bitrate's is at least the context's value
DominatesButMbps(l, c) ==
    /\ GeBig(l.max_pic_size, MulU16(c.pic_size[1], c.pic_size[2]))
    /\ l.max_h_size >= c.pic_size[1]
    /\ l.max_v_size >= c.pic_size[2]
    /\ GeBig(l.max_display_rate, c.display_rate)
    /\ GeBig(l.max_decode_rate, c.decode_rate)
    /\ l.max_header_rate >= c.header_rate
    /\ l.max_tiles >= c.tiles
    /\ l.max_tile_cols >= c.tile_cols

\* the tier whose constants judge level i in a context of tier t
JudgingTier(t, i) == IF t = "High" /\ i > 7 THEN "High" ELSE "Main"

\* 0.8.max(cr * rate / max_display_rate), NaN being ignored by max
ExpectedRatio(cr, rate, limits) ==
    LET raw == W(DMul(Digits(cr), Digits(rate[1])),
                 DMul(Digits(rate[2]), U64AsF64(limits.max_display_rate)))
    IN  IF WNaN(raw) \/ ~WGe(raw, Floor) THEN Floor ELSE raw

\* C15: in a context of tier High a level of index up to 7 is judged by its
\* Main-tier constants and a level above 7 by its High-tier constants, in a
\* context of tier Main every level is judged by its Main-tier constants:
\* main_mbps or high_mbps in calculate_level, main_cr or high_cr in
\* calculate_min_pic_compress_ratio.
C15_TierRule ==
    /\ selected # None =>
          LET Mbps(j) ==
                  IF JudgingTier(seq_ctx.tier, j) = "High"
                  THEN LEVELS[j].limits[1].high_mbps
                  ELSE LEVELS[j].limits[1].main_mbps
          IN  /\ GeF64(Mbps(selected[1].idx), seq_ctx.mbps)
              /\ \A j \in 0..(selected[1].idx - 1) :
                     (is_valid(LEVELS[j])
                         /\ DominatesButMbps(LEVELS[j].limits[1], seq_ctx))
                     => ~GeF64(Mbps(j), seq_ctx.mbps)
    /\ min_pic_compressed_ratio # None =>
          \A i \in 0..31 :
              is_valid(LEVELS[i]) =>
                  LET cr == IF JudgingTier(seq_ctx.tier, i) = "High"
                            THEN LEVELS[i].limits[1].high_cr
                            ELSE LEVELS[i].limits[1].main_cr
                      e == ExpectedRatio(cr, display_rate[1],
                                         LEVELS[i].limits[1])
                  IN  WGe(Ratios[i], e) /\ WGe(e, Ratios[i])

C15_Witness ==
    /\ min_pic_compressed_ratio # None
    /\ seq_ctx.tier = "High"
    /\ selected # None
    /\ selected[1].idx = 8
    /\ ~GeF64(LEVELS[8].limits[1].main_mbps, seq_ctx.mbps)
    /\ display_rate = Some(<<442368000, 1>>)
    /\ ~WGe(Floor, Ratios[12])

\* C16: index 31 is written as "Maximum parameters", every index without
\* limits below 31 as "Reserved", and every other index i as "x.y (i)" with
\* x = 2 + (i >> 2) and y = i & 3.
C16_LevelDisplay ==
    printed # None =>
        printed[1] =
            IF level = 31
            THEN [text |-> "Maximum parameters", x |-> 0, y |-> 0, index |-> 0]
            ELSE IF level \in ReservedIndexes
            THEN [text |-> "Reserved", x |-> 0, y |-> 0, index |-> 0]
            ELSE [text |-> "{}.{} ({})", x |-> 2 + (level \div 4),
                  y |-> level % 4, index |-> level]

(***************************************************************************)
(* Properties of the statistics pass, under SpecAccum.                     *)
(***************************************************************************)
\* the last close of a unit was made by the final updates
ClosedAtEnd == closed # None /\ closed[1].eos

\* the last close of a unit was made by a temporal delimiter
ClosedAtDelimiter == closed # None /\ ~closed[1].eos

\* C17: at the end of a stream that has a frame and at most one temporal
\* delimiter, the delta_time of the final updates is above zero.
C17_FinalDeltaTimePositive ==
    (ClosedAtEnd /\ delimiters <= 1 /\ seen_frame_header) =>
        closed[1].delta_time[1] > 0

\* C18: when a temporal delimiter closes a unit and the factor is computed,
\* the trimmed window lasts at least one unit of the time scale, so the
\* divisor of the factor is not zero and the factor is at most 1.
C18_FactorOnlyForFullTrimmedWindow ==
    (ClosedAtDelimiter /\ closed[1].factor # None) =>
        /\ Sum(tu_times) >= Round(time_scale)
        /\ Sum(tu_times) # 0
        /\ RGe(<<1, 1>>, closed[1].factor[1])

\* C19: at the end of the stream, when the duration summed over the final
\* window reaches one unit of the time scale, the header rate and the bitrate
\* are the sums over the trimmed window times time_scale over the duration
\* of the trimmed window; otherwise the factor is 1.  (Stated for the
\* windows that keep a sample of non-zero duration.)
C19_FinalWindowAsAtDelimiter ==
    (ClosedAtEnd /\ Sum(tu_times) > 0) =>
        IF closed[1].sum >= Round(time_scale)
        THEN LET f == RDiv(time_scale, <<Sum(tu_times), 1>>) IN
             /\ closed[1].header_rate[1] = RMul(<<Sum(header_counts), 1>>, f)
             /\ closed[1].mbps[1] =
                    RMul(RMul(<<Sum(tu_sizes), 1>>, f), <<8, 1>>)
        ELSE closed[1].factor[1] = <<1, 1>>

\* the ratios of the last close
ClosedRatios ==
    calculate_min_pic_compress_ratio(closed[1].tier[1], display_rate[1])

\* the lowest index whose ratio the unit's observed ratio is at or below
\* (32: none)
RECURSIVE FirstAtOrBelow(_)
FirstAtOrBelow(i) ==
    IF i > 31 THEN 32
    ELSE IF closed[1].ratio # RMAX
            /\ WGe(ClosedRatios[i], Wide(closed[1].ratio)) THEN i
    ELSE FirstAtOrBelow(i + 1)

\* C20 as stated: after a unit is closed with the tier known,
\* min_cr_level_idx is the larger of its value before and the lowest index
\* whose ratio the unit's lowest compressed ratio is at or below.
C20_AtOrBelowThreshold ==
    (closed # None /\ closed[1].tier # None) =>
        LET l == FirstAtOrBelow(0) IN
        min_cr_level_idx = IF l > 31 THEN closed[1].prev
                           ELSE MaxOf(closed[1].prev, l)

\* C20, amended: after a unit is closed with the tier known,
\* min_cr_level_idx is the larger of its value before and the lowest index,
\* over all 32 entries of the table, whose ratio the unit's lowest compressed
\* ratio is at or above; it is not below its value before.
C20_AtOrAboveThreshold ==
    (closed # None /\ closed[1].tier # None) =>
        /\ \E l \in 0..31 :
              /\ GeWide(closed[1].ratio, ClosedRatios[l])
              /\ \A j \in 0..(l - 1) :
                     ~GeWide(closed[1].ratio, ClosedRatios[j])
              /\ min_cr_level_idx = MaxOf(closed[1].prev, l)
        /\ min_cr_level_idx >= closed[1].prev

C20_Witness ==
    /\ ClosedAtDelimiter
    /\ closed[1].tier # None
    /\ closed[1].prev = 0
    /\ min_cr_level_idx = 1
    /\ closed[1].ratio = <<3, 2>>

(***************************************************************************)
(* The counters of a parsed frame header (main.rs:365-392).                *)
(***************************************************************************)
\* a frame header or frame OBU whose header parsed is processed
ParsedHeader(o) == FrameHeader(o) /\ sh # None /\ o.fh # None

\* C21 as stated: every successfully parsed frame header adds one to
\* header_count, one to the decoded-frame count unless it is a
\* show-existing-frame reference, and one to the shown-frame count exactly
\* when it is shown or a show-existing-frame reference.
C21_HeaderCountedAlways ==
    [][\A o \in FrameSample :
           ParsedHeader(o) =>
               /\ header_count' = header_count + 1
               /\ frame_count' = IF o.fh[1].show_existing_frame
                                 THEN frame_count ELSE frame_count + 1
               /\ show_count' = IF o.fh[1].show_frame
                                   \/ o.fh[1].show_existing_frame
                                THEN show_count + 1 ELSE show_count]_vars

\* C21 amended: every successfully parsed frame header adds one to
\* header_count and one to the decoded-frame count unless it is a
\* show-existing-frame reference, which leaves both unchanged, and one to
\* the shown-frame count exactly when it is shown or a show-existing-frame
\* reference.
C21_HeaderCountedUnlessExisting ==
    [][\A o \in FrameSample :
           ParsedHeader(o) =>
               /\ header_count' = IF o.fh[1].show_existing_frame
                                  THEN header_count ELSE header_count + 1
               /\ frame_count' = IF o.fh[1].show_existing_frame
                                 THEN frame_count ELSE frame_count + 1
               /\ show_count' = IF o.fh[1].show_frame
                                   \/ o.fh[1].show_existing_frame
                                THEN show_count + 1 ELSE show_count]_vars

\* a unit holding a show-existing-frame reference and a hidden decoded frame
C21_Witness ==
    /\ pc = "read"
    /\ seen_frame_header
    /\ show_count = 1
    /\ header_count = 1
    /\ frame_count = 1
    /\ max_tiles = 4

(***************************************************************************)
(* The temporal delimiter (main.rs:271-343).                               *)
(***************************************************************************)
\* a delimiter that opens a new temporal unit is processed
Boundary == TemporalDelimiter /\ pts # cur_tu_time

\* the variables the statistics pass accumulates in
Accumulators ==
    <<show_count, frame_count, header_count, tu_size, tu_sizes, tu_times,
      header_counts, max_display_rate, max_decode_rate, max_header_rate,
      max_mbps, max_tiles, max_tile_cols, min_cr_level_idx,
      min_compressed_ratio, seen_frame_header, last_tu_time, cur_tu_time,
      frame_size>>

\* C22: immediately after a new-temporal-unit boundary with timestamp pts,
\* the per-unit counters (shown, decoded, header, unit byte tally) are zero
\* and the tracked unit start equals pts.
C22_BoundaryMovesUnitStart ==
    [][Boundary =>
           /\ show_count' = 0
           /\ frame_count' = 0
           /\ header_count' = 0
           /\ tu_size' = 0
           /\ cur_tu_time' = pts]_vars

\* C23: a temporal delimiter whose timestamp equals the tracked unit start
\* changes no accumulator: counters, windows, maxima, min_cr_level_idx, unit
\* start times and the frame-size tally.
C23_DuplicateDelimiterIgnored ==
    [][(TemporalDelimiter /\ pts = cur_tu_time) =>
           UNCHANGED Accumulators]_vars

\* a duplicate delimiter was processed in a unit with a frame, after a close
C23_Witness ==
    /\ pc = "read"
    /\ delimiters = 2
    /\ Len(tu_times) = 1
    /\ pts = cur_tu_time
    /\ show_count > 0
    /\ tu_size > 0

\* C24: the three windows have equal length in every state, and the summed
\* duration of the window never exceeds the rounded time scale.
C24_WindowBounded ==
    /\ Len(header_counts) = Len(tu_times)
    /\ Len(tu_sizes) = Len(tu_times)
    /\ Sum(tu_times) <= Round(time_scale)

\* a delimiter closed a unit that overfilled the window, and the trimmed
\* window still holds a unit
C24_Witness ==
    /\ ClosedAtDelimiter
    /\ pc = "read"
    /\ closed[1].sum > Round(time_scale)
    /\ Len(tu_times) = 1

(***************************************************************************)
(* The resolved level and the compressed ratio bound (main.rs:514-540).    *)
(***************************************************************************)
\* C26: when no level is forced, the resolved level
\* LEVELS[max(selected index, min_cr_level_idx)] has limits.
C26_ResolvedLevelValid ==
    (pc = "resolved" /\ forced_level = None) => is_valid(LEVELS[level])

(***************************************************************************)
(* The order of the limit table (level.rs:95-368).                         *)
(***************************************************************************)
\* every limit of b is at least the same limit of a
LimitsAtLeast(b, a) ==
    /\ GeBig(b.max_pic_size, a.max_pic_size)
    /\ b.max_h_size >= a.max_h_size
    /\ b.max_v_size >= a.max_v_size
    /\ GeBig(b.max_display_rate, a.max_display_rate)
    /\ GeBig(b.max_decode_rate, a.max_decode_rate)
    /\ b.max_header_rate >= a.max_header_rate
    /\ GeF64(b.main_mbps, a.main_mbps)
    /\ GeF64(b.high_mbps, a.high_mbps)
    /\ b.max_tiles >= a.max_tiles
    /\ b.max_tile_cols >= a.max_tile_cols

\* C27: for any two valid levels i < j every limit of level j is at least
\* the limit of level i, and the level resolved by raising the selected
\* level to the compressed ratio bound satisfies the context.
C27_TableMonotone ==
    /\ \A i \in 0..31 : \A j \in (i + 1)..31 :
           (is_valid(LEVELS[i]) /\ is_valid(LEVELS[j])) =>
               LimitsAtLeast(LEVELS[j].limits[1], LEVELS[i].limits[1])
    /\ (pc = "resolved" /\ forced_level = None) =>
           /\ is_valid(LEVELS[level])
           /\ Dominates(LEVELS[level].limits[1], level, seq_ctx)

(***************************************************************************)
(* The compressed ratio of a frame (main.rs:344-363) and its comparison    *)
(* with the thresholds (main.rs:314-340, 478-485).                         *)
(***************************************************************************)
\* a temporal unit is closed and its minimum compared with the thresholds
Compared == (Boundary \/ EndOfStream) /\ sh # None

\* C30: when a unit's minimum compressed ratio is compared with the level
\* thresholds, at a delimiter or at the end of the stream, and the unit
\* holds a decoded frame, the ratio of the unit's last frame (uncompressed
\* size over the frame's size tally) has been folded into it: the minimum is
\* not above that ratio.
C30_LastFrameFolded ==
    [][(Compared /\ header_count > 0 /\ frame_size > 0) =>
           RGe(R(uncompressed_size(sh[1]), frame_size),
               min_compressed_ratio)]_vars

(***************************************************************************)
(* The reads and writes of the patch pass (main.rs:613-716), under Spec.   *)
(***************************************************************************)
\* the file offsets of the two level bytes
LevelBytes == {lv_byte_offset, lv_byte_offset + 1}

\* the file offsets of the record positions after the level bytes
RealignedBytes ==
    (seq_pos + lv_bit_offset_in_seq \div 8 + 2)..(seq_pos + seq_sz - 1)

\* C25: the patch pass stops only when it is done, or by refusing a level
\* that does not match or a High tier below level 4.0; done with no tier
\* transition it has written the two level bytes and read nothing but them,
\* done with a tier insertion or removal it has written the two level bytes
\* and each record position after them up to the record's last.
C25_PatchWritesAndStops ==
    /\ pc = "abort" => fatal \in {MismatchMsg, HighTierMsg}
    /\ pc = "done" =>
           IF NoTransition
           THEN wrote = LevelBytes /\ reads = LevelBytes
           ELSE wrote = LevelBytes \cup RealignedBytes

\* C28: the patch pass reads no byte outside the sequence header record, and
\* the patched record does not depend on the bytes that follow it: the bit a
\* tier removal shifts in at the record's end is the 0 it is when a zero byte
\* follows.
C28_ReadsInsideRecord ==
    /\ reads \subseteq seq_pos..(seq_pos + seq_sz - 1)
    /\ (pc = "done" /\ run = 1 /\ TierRemoved) =>
           RecBit(out, RecordBits - 1) = 0

(***************************************************************************)
(* The sequence header that is patched (main.rs:420-425, 578-581).         *)
(***************************************************************************)
\* C29: when the level is to be patched into the output and differs from the
\* old level, every sequence header OBU of the stream is the one the patch
\* pass is set at: no other record is left with the old level.
C29_EveryRecordPatched ==
    (pc = "located" /\ level # old_level) => seq_seen \subseteq {seq_pos}

====
